---- MODULE Spec2Model ----
(***************************************************************************)
(* Fire Escape: the quest/game state machine of the Game orchestrator      *)
(* (game.ts) together with QuestManager, the quest registry and the parts  *)
(* of UIManager and World that the orchestrator drives.                    *)
(*                                                                         *)
(* Time is abstracted: a pending window.setTimeout callback may run at any *)
(* moment while it is pending.  The two <dialog> elements of UIManager are *)
(* modelled by the browser's top layer: showModal() puts a dialog on top,  *)
(* the user can only act on the topmost open dialog, the page buttons are  *)
(* inert while any modal dialog is open, and a "close" event is delivered  *)
(* when an open dialog is closed.  World.showFireAtPoint is asynchronous:  *)
(* the particle systems it awaits may be delivered at any later moment.    *)
(***************************************************************************)
EXTENDS Integers, Sequences, FiniteSets, TLC

\* Longest quest registry explored.
MaxQuests == 3

\* Longest quest registry and most QuestManager instances explored when
\* several instances are constructed from one template.
MaxTemplate == 2
MaxInstances == 2

\* `null` for a quest reference (_pendingQuest, getCurrentQuest() === undefined).
NoQuest == 0

\* `null` for a position (_cachedObjectivePos, getFirePointPosition miss).
NoPos == -1

\* `null` for the timer handle _questTimer.
NoTimer == 0

\* Values of Quest.trigger; "none" is an absent trigger field.
Triggers == {"phonecall", "direct", "none"}

\* Values of Quest.changeCameraTarget; "none" is an absent field.
CameraTargets == {"cyclist", "none"}

\* Player positions explored, on the line through the fire points: at squared
\* distance 0, 16 or 81 from the fire points at 0 and 0, 25 or 81 from those at 9.
Positions == {0, 4, 9}

\* Squared completion radius of the objective check.
CompletionRadiusSq == 25

\* x coordinate of the player's start position.
PlayerStartX == 0

VARIABLES
    registry,           \* the immutable template `quests` of quests.ts
    quests,             \* QuestManager._quests, the per-session deep copy
    gameState,          \* Game._gameState
    pendingQuest,       \* Game._pendingQuest (a quest id, NoQuest for null)
    isInCutscene,       \* Game._isInCutscene
    questTimer,         \* Game._questTimer (a handle, NoTimer for null)
    cachedCurrentQuest, \* Game._cachedCurrentQuest (a quest id)
    cachedObjectivePos, \* Game._cachedObjectivePos
    playerPos,          \* Player.capsule.position
    isMapView,          \* GameCamera._isMapView
    cyclistCamera,      \* World.cyclistCamera / cyclistRoot mesh still exist
    modals,             \* open modal dialogs, bottom to top
    dialogueText,       \* what the instruction modal displays
    phoneCallerName,    \* quest whose caller the phone modal displays
    initialTimeout,     \* the initialQuestDelay timeout is pending
    questTimeouts,      \* pending quest-timer timeouts
    cinematicTimeouts,  \* pending cinematic timeouts (their quest ids)
    reloadTimeout,      \* the reload timeout is pending
    nextHandle,         \* next handle window.setTimeout returns
    controlsEnabled,    \* Player._controlsEnabled
    firePoints,         \* keys of World._firePoints (quest ids)
    fireSystems,        \* World._fireParticleSystems, by their emitter's quest
    fireRunning,        \* the particle systems that are started
    fireCreations,      \* showFireAtPoint calls awaiting ParticleHelper.CreateAsync
    heap,               \* the Quest objects that exist, by address
    templateRefs,       \* addresses of the objects of the exported `quests` array
    instances,          \* the QuestManager instances: addresses of their _quests
    markerVisible,      \* Player._marker.isVisible
    teleportButtonsVisible, \* quests whose mesh in World._teleportButtons is visible
    teleportLabelsVisible,  \* quests whose number label, the clickable plane, is visible
    audioInitialized,   \* AudioManager._audioInitialized
    ringtonePlaying,    \* AudioManager._ringtoneLoop exists and is started
    camera,             \* a GameCamera's ArcRotateCamera: angles, radius, limits, control
    savedCamera,        \* its _savedAlpha, _savedBeta, _savedRadius
    cameraIsMapView,    \* its _isMapView
    expiredIn           \* history: game state in which the session's latest
                        \* quest-timer expiry was delivered, "none" before

vars == <<registry, quests, gameState, pendingQuest, isInCutscene, questTimer,
          cachedCurrentQuest, cachedObjectivePos, playerPos, isMapView,
          cyclistCamera, modals, dialogueText, phoneCallerName,
          initialTimeout, questTimeouts, cinematicTimeouts, reloadTimeout,
          nextHandle, expiredIn, controlsEnabled, firePoints, fireSystems,
          fireRunning, fireCreations, heap, templateRefs, instances,
          markerVisible, teleportButtonsVisible, teleportLabelsVisible,
          audioInitialized, ringtonePlaying, camera, savedCamera,
          cameraIsMapView>>

\* A GameCamera driven through its public methods.
cameraVars == <<camera, savedCamera, cameraIsMapView>>

\* The AudioManager, as far as the ringtone goes.
audioVars == <<audioInitialized, ringtonePlaying>>

\* What the map button shows and hides besides the fire effects.
mapVars == <<markerVisible, teleportButtonsVisible, teleportLabelsVisible>>

\* The Quest objects and who refers to them.
instanceVars == <<heap, templateRefs, instances>>

\* The state of World's fire effects.
fireVars == <<fireSystems, fireRunning, fireCreations>>

\* The state of Player and World that the quest flow leaves alone.
worldVars == <<controlsEnabled, firePoints, fireVars>>

GameStates == {"AWAITING_QUEST", "PLAYING", "SHOWING_INSTRUCTIONS", "SHOWING_SUCCESS"}

-----------------------------------------------------------------------------
(* Camera configuration: angles in hundredths of a radian *)

\* DEFAULT_CAMERA_CONFIG.
DefaultAlpha == -157
DefaultBeta == 126
DefaultRadius == 15
RadiusLimitMin == 2
RadiusLimitMax == 5
BetaLimitMin == 10
BetaLimitMax == 143

\* The top-down view of switchToTopDownView.
TopDownAlpha == 0
TopDownBeta == 1
TopDownRadius == 120

\* _createCamera: the ArcRotateCamera with its limits, control attached.
NewArcRotateCamera ==
    [alpha |-> DefaultAlpha, beta |-> DefaultBeta, radius |-> DefaultRadius,
     lowerRadiusLimit |-> RadiusLimitMin, upperRadiusLimit |-> RadiusLimitMax,
     lowerBetaLimit |-> BetaLimitMin, upperBetaLimit |-> BetaLimitMax,
     attached |-> TRUE]

-----------------------------------------------------------------------------
(* Quest registry *)

\* A registry entry: ids are 1..n in registry order, every status "locked".
QuestTemplate(i, t, c) ==
    [id |-> i, trigger |-> t, changeCameraTarget |-> c, status |-> "locked"]

\* Triggers a quest at registry index i may have.  An absent trigger is told
\* from "direct" only by the QuestManager constructor, which looks at the
\* first quest; everywhere else the code tests trigger === "phonecall" only.
TriggersAt(i) == IF i = 1 THEN Triggers ELSE Triggers \ {"none"}

\* The camera targets of a registry of n quests.  The world has one cyclist,
\* disposed of after its cinematic, so at most one quest points the camera
\* at it.
CameraTargetsOf(n) ==
    {f \in [1..n -> CameraTargets] :
        \A i, j \in 1..n : (f[i] = "cyclist" /\ f[j] = "cyclist") => i = j}

\* All registries of n quests.
Registries(n) ==
    {[i \in 1..n |-> QuestTemplate(i, tr[i], ct[i])] :
        tr \in {f \in [1..n -> Triggers] : \A i \in 1..n : f[i] \in TriggersAt(i)},
        ct \in CameraTargetsOf(n)}

-----------------------------------------------------------------------------
(* QuestManager *)

\* Variant: the first quest is made active whatever its trigger.
NewQuestManager_AlwaysActivatesFirst(reg) ==
    IF Len(reg) > 0 THEN [reg EXCEPT ![1].status = "active"] ELSE reg

\* constructor: deep copy, first quest active only if it has no trigger.
NewQuestManager(reg) ==
    IF Len(reg) > 0 /\ reg[1].trigger = "none"
    THEN [reg EXCEPT ![1].status = "active"]
    ELSE reg

\* getQuestById (Array.prototype.find): index of the first quest with this id,
\* 0 for undefined.
GetQuestById(qs, id) ==
    IF \E i \in 1..Len(qs) : qs[i].id = id
    THEN CHOOSE i \in 1..Len(qs) :
            qs[i].id = id /\ \A j \in 1..(i - 1) : qs[j].id # id
    ELSE 0

\* getCurrentQuest (Array.prototype.find): index of the first active quest,
\* 0 for undefined.
GetCurrentQuest(qs) ==
    IF \E i \in 1..Len(qs) : qs[i].status = "active"
    THEN CHOOSE i \in 1..Len(qs) :
            qs[i].status = "active" /\ \A j \in 1..(i - 1) : qs[j].status # "active"
    ELSE 0

\* Variant: the lookup lands one slot after the quest with this id.
ActivateQuestById_OffByOne(qs, id) ==
    LET i == GetQuestById(qs, id) + 1 IN
    IF i \in 2..Len(qs) /\ qs[i].status = "locked"
    THEN [qs EXCEPT ![i].status = "active"]
    ELSE qs

\* Variant: the quest with this id is activated whatever its status.
ActivateQuestById_NoLockedCheck(qs, id) ==
    LET i == GetQuestById(qs, id) IN
    IF i # 0 THEN [qs EXCEPT ![i].status = "active"] ELSE qs

\* activateQuestById: locked -> active, otherwise nothing.
ActivateQuestById(qs, id) ==
    LET i == GetQuestById(qs, id) IN
    IF i # 0 /\ qs[i].status = "locked"
    THEN [qs EXCEPT ![i].status = "active"]
    ELSE qs

\* Variant: the current quest's status is left as it is.
CompleteCurrentQuestAndGetNext_KeepsActive(qs) ==
    LET cur == GetCurrentQuest(qs) IN
    IF cur = 0
    THEN [quests |-> qs, next |-> NoQuest]
    ELSE [quests |-> qs,
          next |-> IF cur < Len(qs) THEN qs[cur + 1].id ELSE NoQuest]

\* Variant: the returned quest is the one after the next.
CompleteCurrentQuestAndGetNext_SkipsOne(qs) ==
    LET cur == GetCurrentQuest(qs) IN
    IF cur = 0
    THEN [quests |-> qs, next |-> NoQuest]
    ELSE LET done == [qs EXCEPT ![cur].status = "completed"]
         IN [quests |-> done,
             next |-> IF cur + 1 < Len(done) THEN done[cur + 2].id ELSE NoQuest]

\* Variant: the successor is activated by the same call.
CompleteCurrentQuestAndGetNext_ActivatesNext(qs) ==
    LET cur == GetCurrentQuest(qs) IN
    IF cur = 0
    THEN [quests |-> qs, next |-> NoQuest]
    ELSE IF cur < Len(qs)
    THEN [quests |-> [qs EXCEPT ![cur].status = "completed",
                                ![cur + 1].status = "active"],
          next |-> qs[cur + 1].id]
    ELSE [quests |-> [qs EXCEPT ![cur].status = "completed"], next |-> NoQuest]

\* Variant: with no active quest the first quest is handed out again.
CompleteCurrentQuestAndGetNext_RestartsWhenIdle(qs) ==
    LET cur == GetCurrentQuest(qs) IN
    IF cur = 0
    THEN [quests |-> qs, next |-> IF Len(qs) > 0 THEN qs[1].id ELSE NoQuest]
    ELSE [quests |-> [qs EXCEPT ![cur].status = "completed"],
          next |-> IF cur < Len(qs) THEN qs[cur + 1].id ELSE NoQuest]

\* Variant: the finished quest goes back to locked.
CompleteCurrentQuestAndGetNext_Relocks(qs) ==
    LET cur == GetCurrentQuest(qs) IN
    IF cur = 0
    THEN [quests |-> qs, next |-> NoQuest]
    ELSE LET done == [qs EXCEPT ![cur].status = "locked"]
             nextQuestIndex == GetQuestById(done, qs[cur].id) + 1
         IN [quests |-> done,
             next |-> IF nextQuestIndex - 1 < Len(done)
                      THEN done[nextQuestIndex].id
                      ELSE NoQuest]

\* completeCurrentQuestAndGetNext: the new quest list and the returned quest
\* (its id, NoQuest for null).
CompleteCurrentQuestAndGetNext(qs) ==
    LET cur == GetCurrentQuest(qs) IN
    IF cur = 0
    THEN [quests |-> qs, next |-> NoQuest]
    ELSE LET done == [qs EXCEPT ![cur].status = "completed"]
             nextQuestIndex == GetQuestById(done, qs[cur].id) + 1
         IN [quests |-> done,
             next |-> IF nextQuestIndex - 1 < Len(done)
                      THEN done[nextQuestIndex].id
                      ELSE NoQuest]

-----------------------------------------------------------------------------
(* World and UIManager helpers *)

\* x coordinate of the fire point created for a quest.
FirePointX(id) == IF id % 2 = 1 THEN 9 ELSE 0

\* World.getFirePointPosition: null when the map has no fire point for the id.
GetFirePointPosition(id) ==
    IF id \in firePoints THEN FirePointX(id) ELSE NoPos

\* World.hideAllFires: every particle system of the list is disposed and the
\* list emptied; a creation still awaited is not in the list.
HideAllFires == {}

\* World.showFireAtPoint(id) up to its await: the creations awaited after the
\* call, which returns at once when the id has no fire point.
ShowFireAtPoint(id) ==
    IF id \in firePoints THEN fireCreations \cup {id} ELSE fireCreations

\* World.setFiresVisible(visible): the systems of the list are started or
\* stopped; the running systems after the call.
SetFiresVisible(visible) == IF visible THEN fireSystems ELSE {}

\* The keys of World._teleportButtons: one button per quest of the registry.
TeleportButtons == {registry[i].id : i \in 1..Len(registry)}

\* World.setTeleportButtonsVisible(visible): every mesh and its label.
SetTeleportButtonsVisible(visible) ==
    /\ teleportButtonsVisible' = (IF visible THEN TeleportButtons ELSE {})
    /\ teleportLabelsVisible' = (IF visible THEN TeleportButtons ELSE {})

\* Vector3.DistanceSquared on the line.
DistanceSquared(p, q) == (p - q) * (p - q)

\* HTMLDialogElement.showModal(): opens on top; no effect when already open.
ShowModal(ms, d) ==
    IF \E i \in 1..Len(ms) : ms[i] = d THEN ms ELSE Append(ms, d)

\* HTMLDialogElement.close(): the dialog leaves the top layer.
CloseModal(ms, d) == SelectSeq(ms, LAMBDA m : m # d)

\* The dialog the user can act on, "none" when no modal is open.
TopModal == IF modals = <<>> THEN "none" ELSE modals[Len(modals)]

\* What showInstructionModal(speaker, text) displays.
Message(kind, id) == [kind |-> kind, quest |-> id]

-----------------------------------------------------------------------------
(* Game: construction *)

\* State of a session right after run() has started the render loop.
Session(reg) ==
    [registry |-> reg,
     quests |-> NewQuestManager(reg),
     gameState |-> "AWAITING_QUEST",
     pendingQuest |-> NoQuest,
     isInCutscene |-> FALSE,
     questTimer |-> NoTimer,
     cachedCurrentQuest |-> NoQuest,
     cachedObjectivePos |-> NoPos,
     playerPos |-> PlayerStartX,
     isMapView |-> FALSE,
     cyclistCamera |-> TRUE,
     modals |-> <<>>,
     dialogueText |-> Message("none", NoQuest),
     phoneCallerName |-> NoQuest,
     initialTimeout |-> Len(reg) > 0,
     questTimeouts |-> {},
     cinematicTimeouts |-> {},
     reloadTimeout |-> FALSE,
     nextHandle |-> 1,
     expiredIn |-> "none",
     controlsEnabled |-> TRUE,
     firePoints |-> {reg[i].id : i \in 1..Len(reg)},
     fireSystems |-> {},
     fireRunning |-> {},
     fireCreations |-> {},
     markerVisible |-> FALSE,
     teleportButtonsVisible |-> {reg[i].id : i \in 1..Len(reg)},
     teleportLabelsVisible |-> {},
     audioInitialized |-> FALSE,
     ringtonePlaying |-> FALSE]

Init ==
    \E n \in 0..MaxQuests : \E reg \in Registries(n) :
        LET s == Session(reg) IN
        /\ registry = s.registry
        /\ quests = s.quests
        /\ gameState = s.gameState
        /\ pendingQuest = s.pendingQuest
        /\ isInCutscene = s.isInCutscene
        /\ questTimer = s.questTimer
        /\ cachedCurrentQuest = s.cachedCurrentQuest
        /\ cachedObjectivePos = s.cachedObjectivePos
        /\ playerPos = s.playerPos
        /\ isMapView = s.isMapView
        /\ cyclistCamera = s.cyclistCamera
        /\ modals = s.modals
        /\ dialogueText = s.dialogueText
        /\ phoneCallerName = s.phoneCallerName
        /\ initialTimeout = s.initialTimeout
        /\ questTimeouts = s.questTimeouts
        /\ cinematicTimeouts = s.cinematicTimeouts
        /\ reloadTimeout = s.reloadTimeout
        /\ nextHandle = s.nextHandle
        /\ expiredIn = s.expiredIn
        /\ controlsEnabled = s.controlsEnabled
        /\ firePoints = s.firePoints
        /\ fireSystems = s.fireSystems
        /\ fireRunning = s.fireRunning
        /\ fireCreations = s.fireCreations
        /\ markerVisible = s.markerVisible
        /\ teleportButtonsVisible = s.teleportButtonsVisible
        /\ teleportLabelsVisible = s.teleportLabelsVisible
        /\ audioInitialized = s.audioInitialized
        /\ ringtonePlaying = s.ringtonePlaying
        /\ camera = NewArcRotateCamera
        /\ savedCamera = [alpha |-> 0, beta |-> 0, radius |-> 0]
        /\ cameraIsMapView = FALSE
        /\ heap = reg
        /\ templateRefs = [i \in 1..Len(reg) |-> i]
        /\ instances = <<>>

-----------------------------------------------------------------------------
(* Game: private helpers, as updates of the variables they assign *)

\* The quest object with this id in the session's quest list.
QuestOf(id) == quests[GetQuestById(quests, id)]

\* _startQuest(quest), with `ms` the dialogs open when it is called.
\* AudioManager.playRingtone: nothing before the audio is initialized.
PlayRingtone == IF audioInitialized THEN TRUE ELSE ringtonePlaying

\* AudioManager.stopRingtone: a loop that exists is stopped.
StopRingtone == FALSE

StartQuest(id, ms) ==
    /\ pendingQuest' = id
    /\ gameState' = "SHOWING_INSTRUCTIONS"
    /\ IF QuestOf(id).trigger = "phonecall"
       THEN /\ ringtonePlaying' = PlayRingtone
            /\ phoneCallerName' = id
            /\ modals' = ShowModal(ms, "phone")
            /\ UNCHANGED dialogueText
       ELSE /\ dialogueText' = Message("riddle", id)
            /\ modals' = ShowModal(ms, "dialogue")
            /\ UNCHANGED <<phoneCallerName, ringtonePlaying>>

\* Variant: the handle is forgotten but the timeout is not cleared.
StopQuestTimer_KeepsPending == questTimeouts

\* _stopQuestTimer: the pending timeouts it leaves.
StopQuestTimer ==
    IF questTimer # NoTimer
    THEN {t \in questTimeouts : t.handle # questTimer}
    ELSE questTimeouts

\* _startQuestTimer, started while quest `id` is being activated.
StartQuestTimer(id) ==
    /\ questTimeouts' = StopQuestTimer \cup {[handle |-> nextHandle, quest |-> id]}
    /\ questTimer' = nextHandle
    /\ nextHandle' = nextHandle + 1

\* Variant: the new fire is requested without hiding the old ones.
OnQuestAdvanced_KeepsFires(id) ==
    /\ fireCreations' = ShowFireAtPoint(id)
    /\ UNCHANGED <<fireSystems, fireRunning>>

\* _onQuestAdvanced(currentQuest): hideAllFires(), then showFireAtPoint(id)
\* up to its await.
OnQuestAdvanced(id) ==
    /\ fireSystems' = HideAllFires
    /\ fireRunning' = HideAllFires
    /\ fireCreations' = ShowFireAtPoint(id)

\* Variant: the pending reference is not cleared.
HandleInstructionsClosed_KeepsPending(ms) ==
    /\ IF pendingQuest # NoQuest
       THEN /\ quests' = ActivateQuestById(quests, pendingQuest)
            /\ OnQuestAdvanced(pendingQuest)
            /\ StartQuestTimer(pendingQuest)
            /\ UNCHANGED pendingQuest
       ELSE UNCHANGED <<quests, pendingQuest, questTimeouts, questTimer, nextHandle,
                        fireVars>>
    /\ gameState' = "PLAYING"
    /\ modals' = ms
    /\ UNCHANGED <<dialogueText, phoneCallerName, ringtonePlaying>>

\* _handleInstructionsClosed.
HandleInstructionsClosed(ms) ==
    /\ IF pendingQuest # NoQuest
       THEN /\ quests' = ActivateQuestById(quests, pendingQuest)
            /\ OnQuestAdvanced(pendingQuest)
            /\ pendingQuest' = NoQuest
            /\ StartQuestTimer(pendingQuest)
       ELSE UNCHANGED <<quests, pendingQuest, questTimeouts, questTimer, nextHandle,
                        fireVars>>
    /\ gameState' = "PLAYING"
    /\ modals' = ms
    /\ UNCHANGED <<dialogueText, phoneCallerName, ringtonePlaying>>

\* _showGameOver.
ShowGameOver(ms) ==
    /\ gameState' = "AWAITING_QUEST"
    /\ dialogueText' = Message("gameover", NoQuest)
    /\ modals' = ShowModal(ms, "dialogue")
    /\ UNCHANGED <<pendingQuest, phoneCallerName, ringtonePlaying>>

\* _handleQuestSuccess.
HandleQuestSuccess(ms) ==
    LET r == CompleteCurrentQuestAndGetNext(quests) IN
    /\ questTimeouts' = StopQuestTimer
    /\ questTimer' = NoTimer
    /\ quests' = r.quests
    /\ IF r.next # NoQuest THEN StartQuest(r.next, ms) ELSE ShowGameOver(ms)
    /\ UNCHANGED <<nextHandle, fireVars>>

\* Variant: every state other than SHOWING_SUCCESS is handled as
\* SHOWING_INSTRUCTIONS.
OnInstructionModalClosed_NoStateCheck(ms) ==
    IF gameState = "SHOWING_SUCCESS" THEN HandleQuestSuccess(ms)
    ELSE HandleInstructionsClosed(ms)

\* _onInstructionModalClosed.
OnInstructionModalClosed(ms) ==
    IF gameState = "SHOWING_INSTRUCTIONS" THEN HandleInstructionsClosed(ms)
    ELSE IF gameState = "SHOWING_SUCCESS" THEN HandleQuestSuccess(ms)
    ELSE /\ modals' = ms
         /\ UNCHANGED <<quests, gameState, pendingQuest, questTimer, dialogueText,
                        phoneCallerName, questTimeouts, nextHandle, fireVars,
                        ringtonePlaying>>

\* _onPhoneModalClosed, with `ms` the dialogs open and `text` the instruction
\* modal's content when the close event is delivered.
OnPhoneModalClosed(ms, text) ==
    /\ ringtonePlaying' = StopRingtone
    /\ IF gameState = "SHOWING_INSTRUCTIONS" /\ pendingQuest # NoQuest
       THEN /\ dialogueText' = Message("riddle", pendingQuest)
            /\ modals' = ShowModal(ms, "dialogue")
            /\ UNCHANGED gameState
       ELSE /\ gameState' = "PLAYING"
            /\ modals' = ms
            /\ dialogueText' = text

\* Variant: the comparison with the radius is not strict.
WithinRange_Inclusive(d2) == d2 <= CompletionRadiusSq

\* The objective check `distanceSquared < 25`.
WithinRange(d2) == d2 < CompletionRadiusSq

\* _completeActiveQuest(quest), including _showQuestCompleteWithCinematic and
\* _showQuestCompleteModal.
CompleteActiveQuest(id) ==
    /\ gameState' = "SHOWING_SUCCESS"
    /\ IF QuestOf(id).changeCameraTarget = "cyclist" /\ cyclistCamera
       THEN /\ isInCutscene' = TRUE
            /\ cinematicTimeouts' = cinematicTimeouts \cup {id}
            /\ UNCHANGED <<dialogueText, modals>>
       ELSE /\ dialogueText' = Message("success", id)
            /\ modals' = ShowModal(modals, "dialogue")
            /\ UNCHANGED <<isInCutscene, cinematicTimeouts>>

\* Variant: the objective check runs in every game state.
ObjectiveCheckEnabled_Always == TRUE

\* The state guard at the top of _updateQuestProgress.
ObjectiveCheckEnabled == gameState = "PLAYING"

\* _updateQuestProgress, with the player at position p.
UpdateQuestProgress(p) ==
    LET cur == GetCurrentQuest(quests) IN
    IF ~ObjectiveCheckEnabled
    THEN UNCHANGED <<gameState, cachedCurrentQuest, cachedObjectivePos,
                     isInCutscene, cinematicTimeouts, dialogueText, modals>>
    ELSE IF cur = 0
    THEN /\ cachedCurrentQuest' = NoQuest
         /\ cachedObjectivePos' = NoPos
         /\ UNCHANGED <<gameState, isInCutscene, cinematicTimeouts, dialogueText, modals>>
    ELSE /\ IF cachedCurrentQuest # quests[cur].id
            THEN /\ cachedCurrentQuest' = quests[cur].id
                 /\ cachedObjectivePos' = GetFirePointPosition(quests[cur].id)
            ELSE UNCHANGED <<cachedCurrentQuest, cachedObjectivePos>>
         /\ IF cachedObjectivePos' # NoPos
               /\ WithinRange(DistanceSquared(p, cachedObjectivePos'))
            THEN CompleteActiveQuest(quests[cur].id)
            ELSE UNCHANGED <<gameState, isInCutscene, cinematicTimeouts,
                             dialogueText, modals>>

-----------------------------------------------------------------------------
(* Game: the callbacks the browser runs *)

\* The initialQuestDelay timeout of _initializeQuests fires.
InitialQuestTimeout ==
    /\ initialTimeout
    /\ initialTimeout' = FALSE
    /\ StartQuest(quests[1].id, modals)
    /\ UNCHANGED <<cameraVars, audioInitialized, mapVars, instanceVars, worldVars, expiredIn, registry, quests, isInCutscene, questTimer, cachedCurrentQuest,
                   cachedObjectivePos, playerPos, isMapView, cyclistCamera,
                   questTimeouts, cinematicTimeouts, reloadTimeout, nextHandle>>

\* Player.update() followed by the physics step of scene.render(): where the
\* player can be afterwards.  With the controls disabled update() returns at
\* once and disableControls() has zeroed the velocity.
PlayerUpdate == IF controlsEnabled THEN Positions ELSE {playerPos}

\* One render-loop callback: the player moves, then _updateQuestProgress.
Tick ==
    \E p \in PlayerUpdate :
        /\ playerPos' = p
        /\ UpdateQuestProgress(p)
        /\ UNCHANGED <<cameraVars, audioVars, mapVars, instanceVars, worldVars, expiredIn, registry, quests, pendingQuest, questTimer, isMapView,
                       cyclistCamera, phoneCallerName, initialTimeout,
                       questTimeouts, reloadTimeout, nextHandle>>

\* Variant: the review is shown the way a new objective is.
InfoPressed_AsNewObjective ==
    /\ TopModal = "none"
    /\ LET cur == GetCurrentQuest(quests) IN
       IF cur # 0
       THEN /\ dialogueText' = Message("riddle", quests[cur].id)
            /\ modals' = ShowModal(modals, "dialogue")
            /\ gameState' = "SHOWING_INSTRUCTIONS"
       ELSE UNCHANGED <<dialogueText, modals, gameState>>
    /\ UNCHANGED <<cameraVars, audioVars, mapVars, instanceVars, worldVars, expiredIn, registry, quests, pendingQuest, isInCutscene,
                   questTimer, cachedCurrentQuest, cachedObjectivePos, playerPos,
                   isMapView, cyclistCamera, phoneCallerName, initialTimeout,
                   questTimeouts, cinematicTimeouts, reloadTimeout, nextHandle>>

\* Click on the info button: _onInfoPressed.
InfoPressed ==
    /\ TopModal = "none"
    /\ LET cur == GetCurrentQuest(quests) IN
       IF cur # 0
       THEN /\ dialogueText' = Message("riddle", quests[cur].id)
            /\ modals' = ShowModal(modals, "dialogue")
       ELSE UNCHANGED <<dialogueText, modals>>
    /\ UNCHANGED <<cameraVars, audioVars, mapVars, instanceVars, worldVars, expiredIn, registry, quests, gameState, pendingQuest, isInCutscene,
                   questTimer, cachedCurrentQuest, cachedObjectivePos, playerPos,
                   isMapView, cyclistCamera, phoneCallerName, initialTimeout,
                   questTimeouts, cinematicTimeouts, reloadTimeout, nextHandle>>

\* Variant: opening the map pauses the game by stopping the quest timer.
MapPressed_StopsTimer ==
    /\ TopModal = "none"
    /\ isMapView' = ~isMapView
    /\ controlsEnabled' = isMapView
    /\ markerVisible' = ~isMapView
    /\ fireRunning' = SetFiresVisible(isMapView)
    /\ SetTeleportButtonsVisible(~isMapView)
    /\ questTimeouts' = StopQuestTimer
    /\ questTimer' = NoTimer
    /\ UNCHANGED <<cameraVars, audioVars, instanceVars, firePoints, fireSystems, fireCreations,
                   expiredIn, registry, quests, gameState, pendingQuest, isInCutscene,
                   cachedCurrentQuest, cachedObjectivePos, playerPos,
                   cyclistCamera, modals, dialogueText, phoneCallerName,
                   initialTimeout, cinematicTimeouts, reloadTimeout, nextHandle>>

\* Click on the map button: _onMapPressed.
MapPressed ==
    /\ TopModal = "none"
    /\ isMapView' = ~isMapView
    /\ controlsEnabled' = isMapView
    /\ markerVisible' = ~isMapView
    /\ fireRunning' = SetFiresVisible(isMapView)
    /\ SetTeleportButtonsVisible(~isMapView)
    /\ UNCHANGED <<cameraVars, audioVars, instanceVars, firePoints, fireSystems, fireCreations,
                   expiredIn, registry, quests, gameState, pendingQuest, isInCutscene,
                   questTimer, cachedCurrentQuest, cachedObjectivePos, playerPos,
                   cyclistCamera, modals, dialogueText, phoneCallerName,
                   initialTimeout, questTimeouts, cinematicTimeouts,
                   reloadTimeout, nextHandle>>


\* The first pointerdown on the canvas (Game._setupAudioTrigger).  Under an
\* open modal the canvas receives no pointer events.
InitializeAudio ==
    /\ TopModal = "none"
    /\ ~audioInitialized
    /\ audioInitialized' = TRUE
    /\ UNCHANGED <<cameraVars, ringtonePlaying, mapVars, instanceVars, worldVars, expiredIn,
                   registry, quests, gameState, pendingQuest, isInCutscene,
                   questTimer, cachedCurrentQuest, cachedObjectivePos, playerPos,
                   isMapView, cyclistCamera, modals, dialogueText,
                   phoneCallerName, initialTimeout, questTimeouts,
                   cinematicTimeouts, reloadTimeout, nextHandle>>

\* Click on a teleport button in map view (scene.onPointerDown): a
\* pointerdown on the canvas.
Teleport ==
    /\ TopModal = "none"
    /\ isMapView
    /\ \E i \in 1..Len(registry) :
          /\ registry[i].id \in teleportLabelsVisible
          /\ GetFirePointPosition(registry[i].id) # NoPos
          /\ playerPos' = GetFirePointPosition(registry[i].id)
    /\ isMapView' = FALSE
    /\ markerVisible' = FALSE
    /\ controlsEnabled' = TRUE
    /\ audioInitialized' = TRUE
    /\ UNCHANGED ringtonePlaying
    /\ fireRunning' = SetFiresVisible(TRUE)
    /\ SetTeleportButtonsVisible(FALSE)
    /\ UNCHANGED <<cameraVars, instanceVars, firePoints, fireSystems, fireCreations,
                   expiredIn, registry, quests, gameState, pendingQuest, isInCutscene,
                   questTimer, cachedCurrentQuest, cachedObjectivePos,
                   cyclistCamera, modals, dialogueText, phoneCallerName,
                   initialTimeout, questTimeouts, cinematicTimeouts,
                   reloadTimeout, nextHandle>>

\* ParticleHelper.CreateAsync resolves: the rest of showFireAtPoint(id) runs.
FireCreated ==
    \E id \in fireCreations :
        /\ fireCreations' = fireCreations \ {id}
        /\ fireSystems' = fireSystems \cup {id}
        /\ fireRunning' = fireRunning \cup {id}
        /\ UNCHANGED <<cameraVars, audioVars, mapVars, instanceVars, controlsEnabled, firePoints,
                       expiredIn, registry, quests, gameState, pendingQuest,
                       isInCutscene, questTimer, cachedCurrentQuest,
                       cachedObjectivePos, playerPos, isMapView, cyclistCamera,
                       modals, dialogueText, phoneCallerName, initialTimeout,
                       questTimeouts, cinematicTimeouts, reloadTimeout, nextHandle>>

\* Click on the answer button of the phone modal: _onAnswerCall, then the
\* close event of hidePhoneCallModal() runs _onPhoneModalClosed.
AnswerCall ==
    /\ TopModal = "phone"
    /\ LET closed == CloseModal(modals, "phone")
           shown == IF pendingQuest # NoQuest
                    THEN ShowModal(closed, "dialogue") ELSE closed
           text == IF pendingQuest # NoQuest
                   THEN Message("riddle", pendingQuest) ELSE dialogueText
       IN OnPhoneModalClosed(shown, text)
    /\ UNCHANGED <<cameraVars, audioInitialized, mapVars, instanceVars, worldVars, expiredIn, registry, quests, pendingQuest, isInCutscene, questTimer,
                   cachedCurrentQuest, cachedObjectivePos, playerPos, isMapView,
                   cyclistCamera, phoneCallerName, initialTimeout, questTimeouts,
                   cinematicTimeouts, reloadTimeout, nextHandle>>

\* The user dismisses the phone modal: its close event runs _onPhoneModalClosed.
PhoneModalClosed ==
    /\ TopModal = "phone"
    /\ OnPhoneModalClosed(CloseModal(modals, "phone"), dialogueText)
    /\ UNCHANGED <<cameraVars, audioInitialized, mapVars, instanceVars, worldVars, expiredIn, registry, quests, pendingQuest, isInCutscene, questTimer,
                   cachedCurrentQuest, cachedObjectivePos, playerPos, isMapView,
                   cyclistCamera, phoneCallerName, initialTimeout, questTimeouts,
                   cinematicTimeouts, reloadTimeout, nextHandle>>

\* The user dismisses the instruction modal: its close event runs
\* _onInstructionModalClosed.
InstructionModalClosed ==
    /\ TopModal = "dialogue"
    /\ OnInstructionModalClosed(CloseModal(modals, "dialogue"))
    /\ UNCHANGED <<cameraVars, audioInitialized, mapVars, instanceVars, controlsEnabled, firePoints, expiredIn, registry, isInCutscene,
                   cachedCurrentQuest, cachedObjectivePos,
                   playerPos, isMapView, cyclistCamera, initialTimeout,
                   cinematicTimeouts, reloadTimeout>>

\* The quest timer's timeout fires: _onQuestTimerExpired.
QuestTimerExpired ==
    \E t \in questTimeouts :
        /\ questTimeouts' = questTimeouts \ {t}
        /\ gameState' = "AWAITING_QUEST"
        /\ dialogueText' = Message("timeup", NoQuest)
        /\ modals' = ShowModal(modals, "dialogue")
        /\ reloadTimeout' = TRUE
        /\ expiredIn' = gameState
        /\ UNCHANGED <<cameraVars, audioVars, mapVars, instanceVars, worldVars, registry, quests, pendingQuest, isInCutscene, questTimer,
                       cachedCurrentQuest, cachedObjectivePos, playerPos,
                       isMapView, cyclistCamera, phoneCallerName, initialTimeout,
                       cinematicTimeouts, nextHandle>>

\* The timeout of _showQuestCompleteWithCinematic fires.
CinematicTimeout ==
    \E id \in cinematicTimeouts :
        /\ cinematicTimeouts' = cinematicTimeouts \ {id}
        /\ dialogueText' = Message("success", id)
        /\ modals' = ShowModal(modals, "dialogue")
        /\ cyclistCamera' = FALSE
        /\ isInCutscene' = FALSE
        /\ UNCHANGED <<cameraVars, audioVars, mapVars, instanceVars, worldVars, expiredIn, registry, quests, gameState, pendingQuest, questTimer,
                       cachedCurrentQuest, cachedObjectivePos, playerPos,
                       isMapView, phoneCallerName, initialTimeout, questTimeouts,
                       reloadTimeout, nextHandle>>

\* The reload timeout fires: window.location.reload() starts a new session.
Reload ==
    /\ reloadTimeout
    /\ LET s == Session(registry) IN
       /\ registry' = s.registry
       /\ quests' = s.quests
       /\ gameState' = s.gameState
       /\ pendingQuest' = s.pendingQuest
       /\ isInCutscene' = s.isInCutscene
       /\ questTimer' = s.questTimer
       /\ cachedCurrentQuest' = s.cachedCurrentQuest
       /\ cachedObjectivePos' = s.cachedObjectivePos
       /\ playerPos' = s.playerPos
       /\ isMapView' = s.isMapView
       /\ cyclistCamera' = s.cyclistCamera
       /\ modals' = s.modals
       /\ dialogueText' = s.dialogueText
       /\ phoneCallerName' = s.phoneCallerName
       /\ initialTimeout' = s.initialTimeout
       /\ questTimeouts' = s.questTimeouts
       /\ cinematicTimeouts' = s.cinematicTimeouts
       /\ reloadTimeout' = s.reloadTimeout
       /\ nextHandle' = s.nextHandle
       /\ expiredIn' = s.expiredIn
       /\ controlsEnabled' = s.controlsEnabled
       /\ firePoints' = s.firePoints
       /\ fireSystems' = s.fireSystems
       /\ fireRunning' = s.fireRunning
       /\ fireCreations' = s.fireCreations
       /\ markerVisible' = s.markerVisible
       /\ teleportButtonsVisible' = s.teleportButtonsVisible
       /\ teleportLabelsVisible' = s.teleportLabelsVisible
       /\ audioInitialized' = s.audioInitialized
       /\ ringtonePlaying' = s.ringtonePlaying
       /\ UNCHANGED <<instanceVars, cameraVars>>

Next ==
    \/ InitialQuestTimeout
    \/ Tick
    \/ InfoPressed
    \/ MapPressed
    \/ Teleport
    \/ InitializeAudio
    \/ AnswerCall
    \/ PhoneModalClosed
    \/ InstructionModalClosed
    \/ QuestTimerExpired
    \/ CinematicTimeout
    \/ Reload

\* The quest flow.  No guard and no update of Next reads fireSystems,
\* fireRunning or fireCreations except to update these three, so the
\* completions of the fire creations, explored by SpecFires below, do not
\* change what Next can do to the other variables.
Spec == Init /\ [][Next]_vars

-----------------------------------------------------------------------------
(* The fire effects: the quest flow together with the completions of the
   asynchronous particle-system creations, for registries without a
   cinematic quest (quests.ts declares no changeCameraTarget); for these
   CinematicTimeout is never enabled. *)

InitFires ==
    /\ Init
    /\ \A i \in 1..Len(registry) : registry[i].changeCameraTarget = "none"

NextFires ==
    \/ InitialQuestTimeout
    \/ Tick
    \/ InfoPressed
    \/ MapPressed
    \/ Teleport
    \/ FireCreated
    \/ AnswerCall
    \/ PhoneModalClosed
    \/ InstructionModalClosed
    \/ QuestTimerExpired
    \/ Reload

SpecFires == InitFires /\ [][NextFires]_vars

-----------------------------------------------------------------------------
(* Game with a World that is not ready: the render loop and the listeners run
   while World._firePoints is still empty, and createQuestFirePoints runs
   later.  Game.run awaits _loadWorld before it starts the render loop, so
   this is Game against a World used through its public methods, for what
   _updateQuestProgress does when getFirePointPosition returns null. *)

\* World.createQuestFirePoints(quests): a fire point for every quest.
CreateQuestFirePoints ==
    /\ firePoints = {}
    /\ Len(registry) > 0
    /\ firePoints' = {registry[i].id : i \in 1..Len(registry)}
    /\ UNCHANGED <<cameraVars, audioVars, mapVars, instanceVars, controlsEnabled, fireVars, registry, quests, gameState,
                   pendingQuest, isInCutscene, questTimer, cachedCurrentQuest,
                   cachedObjectivePos, playerPos, isMapView, cyclistCamera,
                   modals, dialogueText, phoneCallerName, initialTimeout,
                   questTimeouts, cinematicTimeouts, reloadTimeout, nextHandle,
                   expiredIn>>

InitLateWorld ==
    /\ \E n \in 0..MaxQuests : \E reg \in Registries(n) :
          /\ \A i \in 1..n : reg[i].changeCameraTarget = "none"
          /\ registry = reg
    /\ LET s == Session(registry) IN
       /\ quests = s.quests
       /\ gameState = s.gameState
       /\ pendingQuest = s.pendingQuest
       /\ isInCutscene = s.isInCutscene
       /\ questTimer = s.questTimer
       /\ cachedCurrentQuest = s.cachedCurrentQuest
       /\ cachedObjectivePos = s.cachedObjectivePos
       /\ playerPos = s.playerPos
       /\ isMapView = s.isMapView
       /\ cyclistCamera = s.cyclistCamera
       /\ modals = s.modals
       /\ dialogueText = s.dialogueText
       /\ phoneCallerName = s.phoneCallerName
       /\ initialTimeout = s.initialTimeout
       /\ questTimeouts = s.questTimeouts
       /\ cinematicTimeouts = s.cinematicTimeouts
       /\ reloadTimeout = s.reloadTimeout
       /\ nextHandle = s.nextHandle
       /\ expiredIn = s.expiredIn
       /\ controlsEnabled = s.controlsEnabled
       /\ firePoints = {}
       /\ fireSystems = s.fireSystems
       /\ fireRunning = s.fireRunning
       /\ fireCreations = s.fireCreations
       /\ markerVisible = s.markerVisible
       /\ teleportButtonsVisible = s.teleportButtonsVisible
       /\ teleportLabelsVisible = s.teleportLabelsVisible
       /\ audioInitialized = s.audioInitialized
       /\ ringtonePlaying = s.ringtonePlaying
       /\ camera = NewArcRotateCamera
       /\ savedCamera = [alpha |-> 0, beta |-> 0, radius |-> 0]
       /\ cameraIsMapView = FALSE
       /\ heap = registry
       /\ templateRefs = [i \in 1..Len(registry) |-> i]
       /\ instances = <<>>

NextLateWorld ==
    \/ CreateQuestFirePoints
    \/ InitialQuestTimeout
    \/ Tick
    \/ InfoPressed
    \/ AnswerCall
    \/ PhoneModalClosed
    \/ InstructionModalClosed
    \/ FireCreated

SpecLateWorld == InitLateWorld /\ [][NextLateWorld]_vars

-----------------------------------------------------------------------------
(* QuestManager on its own: any sequence of its calls *)

\* activateQuestById(id) called with an id of the registry.
QMActivate(id) ==
    /\ quests' = ActivateQuestById(quests, id)
    /\ UNCHANGED <<cameraVars, audioVars, mapVars, instanceVars, worldVars, registry, gameState, pendingQuest, isInCutscene, questTimer,
                   cachedCurrentQuest, cachedObjectivePos, playerPos, isMapView,
                   cyclistCamera, modals, dialogueText, phoneCallerName,
                   initialTimeout, questTimeouts, cinematicTimeouts,
                   reloadTimeout, nextHandle, expiredIn>>

\* completeCurrentQuestAndGetNext() called.
QMComplete ==
    /\ quests' = CompleteCurrentQuestAndGetNext(quests).quests
    /\ UNCHANGED <<cameraVars, audioVars, mapVars, instanceVars, worldVars, registry, gameState, pendingQuest, isInCutscene, questTimer,
                   cachedCurrentQuest, cachedObjectivePos, playerPos, isMapView,
                   cyclistCamera, modals, dialogueText, phoneCallerName,
                   initialTimeout, questTimeouts, cinematicTimeouts,
                   reloadTimeout, nextHandle, expiredIn>>

QMActivateAny == \E i \in 1..Len(quests) : QMActivate(quests[i].id)

NextQM ==
    \/ QMActivateAny
    \/ QMComplete

SpecQM == Init /\ [][NextQM]_vars

-----------------------------------------------------------------------------
(* Several QuestManager instances constructed from the one exported `quests`
   array, each used through its public methods.  Quest objects have
   addresses, so that a copy and an alias differ. *)

\* The quest list an array of addresses refers to.
View(h, refs) == [i \in 1..Len(refs) |-> h[refs[i]]]

\* Assignments through the references: the objects after the quest list
\* seen through `refs` has been updated to qs.
WriteBack(h, refs, qs) ==
    [a \in 1..Len(h) |->
        IF \E i \in 1..Len(refs) : refs[i] = a
        THEN qs[CHOOSE i \in 1..Len(refs) : refs[i] = a]
        ELSE h[a]]

\* Variant: `this.quests = quests`, the array is shared, not copied.
CopyQuests_Alias(h, refs) == [heap |-> h, refs |-> refs]

\* JSON.parse(JSON.stringify(quests)): a new object for every quest of the
\* array, holding the values the original has at that moment.
CopyQuests(h, refs) ==
    [heap |-> h \o View(h, refs),
     refs |-> [i \in 1..Len(refs) |-> Len(h) + i]]

\* new QuestManager().
QMConstruct ==
    /\ Len(instances) < MaxInstances
    /\ LET c == CopyQuests(heap, templateRefs) IN
       /\ heap' = WriteBack(c.heap, c.refs, NewQuestManager(View(c.heap, c.refs)))
       /\ instances' = Append(instances, c.refs)
    /\ UNCHANGED <<cameraVars, audioVars, mapVars, templateRefs, worldVars, registry, quests, gameState, pendingQuest,
                   isInCutscene, questTimer, cachedCurrentQuest, cachedObjectivePos,
                   playerPos, isMapView, cyclistCamera, modals, dialogueText,
                   phoneCallerName, initialTimeout, questTimeouts,
                   cinematicTimeouts, reloadTimeout, nextHandle, expiredIn>>

\* activateQuestById(id) called on instance m.
QMInstanceActivate(m, id) ==
    /\ heap' = WriteBack(heap, instances[m],
                         ActivateQuestById(View(heap, instances[m]), id))
    /\ UNCHANGED <<cameraVars, audioVars, mapVars, templateRefs, instances, worldVars, registry, quests, gameState,
                   pendingQuest, isInCutscene, questTimer, cachedCurrentQuest,
                   cachedObjectivePos, playerPos, isMapView, cyclistCamera, modals,
                   dialogueText, phoneCallerName, initialTimeout, questTimeouts,
                   cinematicTimeouts, reloadTimeout, nextHandle, expiredIn>>

\* completeCurrentQuestAndGetNext() called on instance m.
QMInstanceComplete(m) ==
    /\ heap' = WriteBack(heap, instances[m],
                         CompleteCurrentQuestAndGetNext(View(heap, instances[m])).quests)
    /\ UNCHANGED <<cameraVars, audioVars, mapVars, templateRefs, instances, worldVars, registry, quests, gameState,
                   pendingQuest, isInCutscene, questTimer, cachedCurrentQuest,
                   cachedObjectivePos, playerPos, isMapView, cyclistCamera, modals,
                   dialogueText, phoneCallerName, initialTimeout, questTimeouts,
                   cinematicTimeouts, reloadTimeout, nextHandle, expiredIn>>

QMInstanceActivateAny ==
    \E m \in 1..Len(instances) : \E i \in 1..Len(registry) :
        QMInstanceActivate(m, registry[i].id)

QMInstanceCompleteAny == \E m \in 1..Len(instances) : QMInstanceComplete(m)

\* QuestManager reads the trigger of the first quest only, and no
\* changeCameraTarget.
InitInstances ==
    /\ Init
    /\ Len(registry) \in 1..MaxTemplate
    /\ \A i \in 1..Len(registry) : registry[i].changeCameraTarget = "none"
    /\ \A i \in 2..Len(registry) : registry[i].trigger = "direct"

NextInstances ==
    \/ QMConstruct
    \/ QMInstanceActivateAny
    \/ QMInstanceCompleteAny

SpecInstances == InitInstances /\ [][NextInstances]_vars

-----------------------------------------------------------------------------
(* A GameCamera on its own: its two public methods, the user turning and
   zooming the camera while control is attached, and the camera's per-frame
   limit check. *)

Clamp(x, lo, hi) == IF x < lo THEN lo ELSE IF x > hi THEN hi ELSE x

\* Angles and radii the user's input can ask for.
InputAlphas == {DefaultAlpha, 0, 90}
InputBetas == {0, DefaultBeta, 150}
InputRadii == {1, 3, 9}

\* ArcRotateCamera._checkLimits, run on every frame.
CheckLimits(c) ==
    [c EXCEPT !.beta = Clamp(c.beta, c.lowerBetaLimit, c.upperBetaLimit),
              !.radius = Clamp(c.radius, c.lowerRadiusLimit, c.upperRadiusLimit)]

CameraFrame ==
    /\ camera' = CheckLimits(camera)
    /\ UNCHANGED <<savedCamera, cameraIsMapView>>
    /\ UNCHANGED <<audioVars, mapVars, instanceVars, worldVars, expiredIn,
                   registry, quests, gameState, pendingQuest, isInCutscene,
                   questTimer, cachedCurrentQuest, cachedObjectivePos, playerPos,
                   isMapView, cyclistCamera, modals, dialogueText,
                   phoneCallerName, initialTimeout, questTimeouts,
                   cinematicTimeouts, reloadTimeout, nextHandle>>

\* Pointer and wheel input moves the camera while control is attached; the
\* limits apply to what it asked for.
CameraInput ==
    /\ camera.attached
    /\ \E a \in InputAlphas, b \in InputBetas, r \in InputRadii :
          camera' = CheckLimits([camera EXCEPT !.alpha = a, !.beta = b,
                                               !.radius = r])
    /\ UNCHANGED <<savedCamera, cameraIsMapView>>
    /\ UNCHANGED <<audioVars, mapVars, instanceVars, worldVars, expiredIn,
                   registry, quests, gameState, pendingQuest, isInCutscene,
                   questTimer, cachedCurrentQuest, cachedObjectivePos, playerPos,
                   isMapView, cyclistCamera, modals, dialogueText,
                   phoneCallerName, initialTimeout, questTimeouts,
                   cinematicTimeouts, reloadTimeout, nextHandle>>

\* Variant: the view is saved again when already in map view.
SwitchToTopDownView_SavesAgain ==
    /\ savedCamera' = [alpha |-> camera.alpha, beta |-> camera.beta,
                       radius |-> camera.radius]
    /\ camera' = [camera EXCEPT !.attached = FALSE,
                                !.alpha = TopDownAlpha,
                                !.beta = TopDownBeta,
                                !.radius = TopDownRadius,
                                !.lowerRadiusLimit = TopDownRadius,
                                !.upperRadiusLimit = TopDownRadius]
    /\ cameraIsMapView' = TRUE
    /\ UNCHANGED <<audioVars, mapVars, instanceVars, worldVars, expiredIn,
                   registry, quests, gameState, pendingQuest, isInCutscene,
                   questTimer, cachedCurrentQuest, cachedObjectivePos, playerPos,
                   isMapView, cyclistCamera, modals, dialogueText,
                   phoneCallerName, initialTimeout, questTimeouts,
                   cinematicTimeouts, reloadTimeout, nextHandle>>

\* GameCamera.switchToTopDownView.
SwitchToTopDownView ==
    /\ IF cameraIsMapView
       THEN UNCHANGED cameraVars
       ELSE /\ savedCamera' = [alpha |-> camera.alpha, beta |-> camera.beta,
                               radius |-> camera.radius]
            /\ camera' = [camera EXCEPT !.attached = FALSE,
                                        !.alpha = TopDownAlpha,
                                        !.beta = TopDownBeta,
                                        !.radius = TopDownRadius,
                                        !.lowerRadiusLimit = TopDownRadius,
                                        !.upperRadiusLimit = TopDownRadius]
            /\ cameraIsMapView' = TRUE
    /\ UNCHANGED <<audioVars, mapVars, instanceVars, worldVars, expiredIn,
                   registry, quests, gameState, pendingQuest, isInCutscene,
                   questTimer, cachedCurrentQuest, cachedObjectivePos, playerPos,
                   isMapView, cyclistCamera, modals, dialogueText,
                   phoneCallerName, initialTimeout, questTimeouts,
                   cinematicTimeouts, reloadTimeout, nextHandle>>

\* GameCamera.switchToNormalView.
SwitchToNormalView ==
    /\ IF ~cameraIsMapView
       THEN UNCHANGED cameraVars
       ELSE /\ camera' = [camera EXCEPT !.alpha = savedCamera.alpha,
                                        !.beta = savedCamera.beta,
                                        !.radius = savedCamera.radius,
                                        !.lowerRadiusLimit = RadiusLimitMin,
                                        !.upperRadiusLimit = RadiusLimitMax,
                                        !.attached = TRUE]
            /\ cameraIsMapView' = FALSE
            /\ UNCHANGED savedCamera
    /\ UNCHANGED <<audioVars, mapVars, instanceVars, worldVars, expiredIn,
                   registry, quests, gameState, pendingQuest, isInCutscene,
                   questTimer, cachedCurrentQuest, cachedObjectivePos, playerPos,
                   isMapView, cyclistCamera, modals, dialogueText,
                   phoneCallerName, initialTimeout, questTimeouts,
                   cinematicTimeouts, reloadTimeout, nextHandle>>

\* The quest flow does not matter to the camera: no quests.
InitCamera ==
    /\ Init
    /\ Len(registry) = 0

NextCamera ==
    \/ SwitchToTopDownView
    \/ SwitchToNormalView
    \/ CameraInput
    \/ CameraFrame

SpecCamera == InitCamera /\ [][NextCamera]_vars

-----------------------------------------------------------------------------
(* Properties *)

\* Indices of the quests with a given status.
WithStatus(qs, st) == {i \in 1..Len(qs) : qs[i].status = st}

\* C1: in every state reachable by the Game orchestrator at most one quest
\* has status active.
C1_AtMostOneActive == Cardinality(WithStatus(quests, "active")) <= 1

\* C1 witness: a second quest has been activated after the first was completed.
C1_Witness ==
    /\ gameState = "PLAYING"
    /\ \E i \in 2..Len(quests) :
          quests[i].status = "active" /\ quests[i - 1].status = "completed"

\* C2: read in registry order the statuses are completed*, at most one
\* active, locked*: no locked quest precedes an active or completed one and no
\* active quest precedes a completed one.
C2_StatusOrder ==
    /\ Cardinality(WithStatus(quests, "active")) <= 1
    /\ \A i, j \in 1..Len(quests) :
          i < j =>
             /\ quests[i].status = "locked" => quests[j].status = "locked"
             /\ quests[i].status = "active" => quests[j].status # "completed"

\* C2 witness: all three statuses occur together, in that order.
C2_Witness ==
    /\ Len(quests) = 3
    /\ quests[1].status = "completed"
    /\ quests[2].status = "active"
    /\ quests[3].status = "locked"

\* A step in which no quest behind the first becomes active while its
\* predecessor is not completed.
SequentialStep ==
    \A i \in 2..Len(quests) :
        (quests[i].status # "active" /\ quests'[i].status = "active")
            => quests[i - 1].status = "completed"

\* C3 as stated: under any sequence of QuestManager calls, with arbitrary ids,
\* a quest at index i > 0 never becomes active while quest i-1 is not completed.
C3_SequentialAnyId == [][SequentialStep]_vars

\* The id is the first quest's or that of a quest whose predecessor is completed.
InSequence(id) ==
    LET i == GetQuestById(quests, id) IN
    i = 1 \/ (i > 1 /\ quests[i - 1].status = "completed")

\* C3 amended: QuestManager calls keep the order provided activateQuestById is
\* only passed the id of the first quest or of a quest whose predecessor is
\* completed; completeCurrentQuestAndGetNext never activates a quest.
C3_SequentialInSequence ==
    [][(QMComplete \/ \E i \in 1..Len(quests) :
            InSequence(quests[i].id) /\ QMActivate(quests[i].id))
        => SequentialStep]_vars

\* C3 witness: a quest behind the first is active and its predecessor completed.
C3_Witness ==
    \E i \in 2..Len(quests) :
        quests[i].status = "active" /\ quests[i - 1].status = "completed"

\* C4: the quest timer is cancelled when the objective is reached, so a
\* time-out is only ever delivered in state PLAYING.
C4_TimeoutOnlyInPlaying == [][QuestTimerExpired => gameState = "PLAYING"]_vars

\* C5: at most one quest timer is pending, every pending timer was started
\* for the quest that is active now, and none is pending while a later quest
\* is being introduced.
C5_TimerBelongsToActiveQuest ==
    /\ Cardinality(questTimeouts) <= 1
    /\ \A t \in questTimeouts :
          /\ GetCurrentQuest(quests) # 0
          /\ quests[GetCurrentQuest(quests)].id = t.quest
          /\ pendingQuest = NoQuest

\* C5 witness: the timer of a second quest is pending after the first quest's
\* timer was started and cancelled.
C5_Witness ==
    \E t \in questTimeouts : t.quest > 1 /\ t.handle > 1

\* C6: once the quest timer has expired in PLAYING, until the reload no step
\* moves the game to SHOWING_SUCCESS or completes a quest.
C6_TerminalAfterTimeout ==
    [][(expiredIn = "PLAYING" /\ expiredIn' = "PLAYING")
        => /\ gameState' # "SHOWING_SUCCESS"
           /\ WithStatus(quests', "completed") = WithStatus(quests, "completed")]_vars

\* The active quest has a successor in the registry.
NextQuestExists ==
    GetCurrentQuest(quests) # 0 /\ GetCurrentQuest(quests) < Len(quests)

\* C7: dismissing the instruction modal moves SHOWING_INSTRUCTIONS to PLAYING,
\* SHOWING_SUCCESS to SHOWING_INSTRUCTIONS when a next quest exists and to
\* AWAITING_QUEST otherwise, and in PLAYING or AWAITING_QUEST changes neither
\* the game state nor any quest status.
C7_DismissalTransitions ==
    [][InstructionModalClosed =>
        /\ gameState = "SHOWING_INSTRUCTIONS" => gameState' = "PLAYING"
        /\ (gameState = "SHOWING_SUCCESS" /\ NextQuestExists)
              => gameState' = "SHOWING_INSTRUCTIONS"
        /\ (gameState = "SHOWING_SUCCESS" /\ ~NextQuestExists)
              => gameState' = "AWAITING_QUEST"
        /\ gameState \in {"PLAYING", "AWAITING_QUEST"}
              => (gameState' = gameState /\ quests' = quests)]_vars

\* C7 witness: a modal was dismissed in AWAITING_QUEST after the last quest's
\* success modal had been dismissed, and the game is still in AWAITING_QUEST.
C7_Witness ==
    /\ Len(quests) > 1
    /\ WithStatus(quests, "completed") = 1..Len(quests)
    /\ gameState = "AWAITING_QUEST"
    /\ dialogueText.kind = "gameover"
    /\ modals = <<>>

\* C8: with no timer expiry, once all N quests are completed no quest is
\* current and the game is, and stays, in AWAITING_QUEST.
C8_AllCompletedIsTerminal ==
    (/\ Len(quests) > 0
     /\ WithStatus(quests, "completed") = 1..Len(quests)
     /\ expiredIn = "none")
        => (GetCurrentQuest(quests) = 0 /\ gameState = "AWAITING_QUEST")

\* A quest with trigger phonecall becomes active in this step.
PhoneQuestActivated(i) ==
    /\ quests[i].trigger = "phonecall"
    /\ quests[i].status # "active"
    /\ quests'[i].status = "active"

\* C9: for a quest with trigger phonecall the phone prompt is shown before its
\* riddle modal, and the quest is activated only by dismissing its riddle modal.
C9_PhoneThenRiddleThenPlay ==
    /\ [](\A i \in 1..Len(quests) :
            (/\ quests[i].trigger = "phonecall"
             /\ pendingQuest = quests[i].id
             /\ TopModal = "dialogue"
             /\ dialogueText = Message("riddle", quests[i].id))
                => phoneCallerName = quests[i].id)
    /\ [][\A i \in 1..Len(quests) :
            PhoneQuestActivated(i)
                => (TopModal = "dialogue"
                    /\ dialogueText = Message("riddle", quests[i].id))]_vars

\* C10: a render tick in PLAYING with an active quest whose fire point exists
\* moves the game to SHOWING_SUCCESS exactly when the squared distance from
\* the player to the target is below 25; at exactly 25 it stays PLAYING.
C10_StrictThreshold ==
    [][(/\ Tick
        /\ gameState = "PLAYING"
        /\ GetCurrentQuest(quests) # 0
        /\ GetFirePointPosition(quests[GetCurrentQuest(quests)].id) # NoPos)
        => LET target == GetFirePointPosition(quests[GetCurrentQuest(quests)].id)
               d2 == DistanceSquared(playerPos', target)
           IN /\ (gameState' = "SHOWING_SUCCESS") <=> (d2 < 25)
              /\ (d2 = 25) => gameState' = "PLAYING"]_vars

\* C10 witness: a tick has checked the active quest at squared distance 25 and
\* the game is still PLAYING.
C10_Witness ==
    /\ gameState = "PLAYING"
    /\ GetCurrentQuest(quests) # 0
    /\ cachedCurrentQuest = quests[GetCurrentQuest(quests)].id
    /\ cachedObjectivePos # NoPos
    /\ DistanceSquared(playerPos, cachedObjectivePos) = 25

\* C11: when the instruction modal is dismissed in SHOWING_INSTRUCTIONS with a
\* pending quest, that one step makes the pending quest active, leaves no
\* fire effect shown and requests the fire of that quest, replaces the quest
\* timer by a fresh timeout for that quest, clears the pending reference and
\* sets the state to PLAYING.
C11_DismissalStartsPendingQuest ==
    [][(/\ InstructionModalClosed
        /\ gameState = "SHOWING_INSTRUCTIONS"
        /\ pendingQuest # NoQuest)
        => /\ quests'[GetQuestById(quests, pendingQuest)].status = "active"
           /\ fireSystems' = {}
           /\ fireRunning' = {}
           /\ pendingQuest \in fireCreations'
           /\ questTimer' # NoTimer
           /\ questTimer' # questTimer
           /\ \A t \in questTimeouts : t.handle # questTimer'
           /\ [handle |-> questTimer', quest |-> pendingQuest] \in questTimeouts'
           /\ \A t \in questTimeouts' : t.handle = questTimer' \/ t.handle # questTimer
           /\ pendingQuest' = NoQuest
           /\ gameState' = "PLAYING"]_vars

\* C11 witness: the second quest has been started by a dismissal after the
\* first quest's fire had been created: no fire is shown, the second quest's
\* fire is awaited and its timer is pending.
C11_Witness ==
    /\ gameState = "PLAYING"
    /\ Len(quests) >= 2
    /\ quests[1].status = "completed"
    /\ quests[2].status = "active"
    /\ pendingQuest = NoQuest
    /\ fireSystems = {}
    /\ fireCreations = {quests[2].id}
    /\ [handle |-> questTimer, quest |-> quests[2].id] \in questTimeouts

\* C12: while a quest is active every running fire effect is the one at that
\* quest's fire point, whenever the asynchronous creations complete.
C12_OnlyActiveQuestFire ==
    GetCurrentQuest(quests) # 0
        => fireRunning \subseteq {quests[GetCurrentQuest(quests)].id}

\* C13: a render tick performs the objective check only in PLAYING: in
\* AWAITING_QUEST, SHOWING_INSTRUCTIONS and SHOWING_SUCCESS a tick changes
\* neither the game state nor any quest status, nor the cached objective, the
\* open dialogs or what they display.
C13_TickOnlyChecksInPlaying ==
    [][(Tick /\ gameState # "PLAYING")
        => UNCHANGED <<gameState, quests, cachedCurrentQuest, cachedObjectivePos,
                       isInCutscene, cinematicTimeouts, modals, dialogueText>>]_vars

\* C13 witness: outside PLAYING a tick has put the player within range of the
\* fire point of a quest that is still active, and nothing has happened.
C13_Witness ==
    /\ gameState # "PLAYING"
    /\ GetCurrentQuest(quests) # 0
    /\ TopModal = "none"
    /\ playerPos # PlayerStartX
    /\ LET target == GetFirePointPosition(quests[GetCurrentQuest(quests)].id)
       IN target # NoPos /\ WithinRange(DistanceSquared(playerPos, target))

\* C14: pressing the map button, in whatever game state, leaves the game
\* state, every quest status, the pending quest and the quest timer unchanged.
C14_MapPressKeepsQuestFlow ==
    [][MapPressed
        => UNCHANGED <<gameState, quests, pendingQuest, questTimer, questTimeouts>>]_vars

\* C14 witness: the map has been opened while a quest is being played with
\* its timer pending.
C14_Witness ==
    /\ isMapView
    /\ ~controlsEnabled
    /\ gameState = "PLAYING"
    /\ GetCurrentQuest(quests) # 0
    /\ questTimer # NoTimer
    /\ \E t \in questTimeouts : t.handle = questTimer

\* C15: while the game is in map view, with the controls disabled, a render
\* tick never moves the game from PLAYING to SHOWING_SUCCESS.
C15_NoCompletionInMapView ==
    [][(Tick /\ isMapView /\ ~controlsEnabled /\ gameState = "PLAYING")
        => gameState' # "SHOWING_SUCCESS"]_vars

\* Ids passed to activateQuestById: those of the quest list and two unknown ones.
CallableIds == 0..(Len(quests) + 1)

\* C16: activateQuestById(id) changes a status only from locked to active and
\* only for the quest with that id; calling it again changes nothing more; on
\* an active or completed quest and on an unknown id it changes nothing.
C16_ActivateOnlyUnlocks ==
    \A id \in CallableIds :
        LET once == ActivateQuestById(quests, id)
            i == GetQuestById(quests, id)
        IN /\ Len(once) = Len(quests)
           /\ \A j \in 1..Len(quests) :
                 once[j] # quests[j]
                    => /\ quests[j].id = id
                       /\ quests[j].status = "locked"
                       /\ once[j] = [quests[j] EXCEPT !.status = "active"]
           /\ (i # 0 /\ quests[i].status = "locked") => once[i].status = "active"
           /\ (i = 0 \/ quests[i].status # "locked") => once = quests
           /\ ActivateQuestById(once, id) = once

\* C16 witness: calls have left a completed, an active and a locked quest, so
\* that a further call meets each case.
C16_Witness ==
    /\ \E i \in 2..Len(quests) : quests[i].status = "active"
    /\ \E i \in 1..Len(quests) : quests[i].status = "completed"
    /\ \E i \in 1..Len(quests) : quests[i].status = "locked"

\* C17: with an active quest, completeCurrentQuestAndGetNext sets exactly that
\* quest to completed, changes no other quest (its successor keeps its status)
\* and returns the quest at the next index of the list, or null for the last.
C17_CompleteMarksOnlyCurrent ==
    LET cur == GetCurrentQuest(quests)
        r == CompleteCurrentQuestAndGetNext(quests)
    IN cur # 0
         => /\ r.quests = [quests EXCEPT ![cur].status = "completed"]
            /\ \A j \in 1..Len(quests) : j # cur => r.quests[j] = quests[j]
            /\ r.next = IF cur < Len(quests) THEN quests[cur + 1].id ELSE NoQuest

\* C17 witness: a call has completed an active quest whose successor is still
\* locked, and another quest is active for the next call.
C17_Witness ==
    /\ GetCurrentQuest(quests) # 0
    /\ \E i \in 1..(Len(quests) - 1) :
          quests[i].status = "completed" /\ quests[i + 1].status = "locked"

\* C18: with no active quest, completeCurrentQuestAndGetNext returns null and
\* leaves every status as it is.
C18_CompleteWithoutActive ==
    LET r == CompleteCurrentQuestAndGetNext(quests)
    IN GetCurrentQuest(quests) = 0 => (r.next = NoQuest /\ r.quests = quests)

\* C18 witness: no quest is active after one was completed, with a locked
\* quest left that a wrong call could hand out.
C18_Witness ==
    /\ GetCurrentQuest(quests) = 0
    /\ \E i \in 1..Len(quests) : quests[i].status = "completed"
    /\ \E i \in 1..Len(quests) : quests[i].status = "locked"

C20_InitialStatuses ==
    nextHandle = 1
        => /\ \A i \in 1..Len(quests) :
                 quests[i].status =
                    IF i = 1 /\ registry[1].trigger = "none"
                    THEN "active" ELSE "locked"
           /\ (Len(quests) > 0 /\ registry[1].trigger = "phonecall")
                 => GetCurrentQuest(quests) = 0

\* C20 witness: with a first quest triggered by a phone call, the call has
\* been answered and the riddle is shown, and still no quest is active.
C20_Witness ==
    /\ nextHandle = 1
    /\ Len(quests) >= 2
    /\ registry[1].trigger = "phonecall"
    /\ gameState = "SHOWING_INSTRUCTIONS"
    /\ TopModal = "dialogue"
    /\ GetCurrentQuest(quests) = 0

\* Statuses of the quest list an array of addresses refers to.
Statuses(h, refs) == [i \in 1..Len(refs) |-> h[refs[i]].status]

\* C21: no operation on a QuestManager instance changes a status held by the
\* registry template or by another instance (a call that changes the statuses
\* of one instance leaves those of every other as they were), and every
\* instance, whatever was done to earlier ones, starts in the state the first
\* one started in.
C21_InstancesAreIsolated ==
    /\ [](View(heap, templateRefs) = registry)
    /\ [][IF Len(instances') > Len(instances)
          THEN /\ View(heap', instances'[Len(instances')]) = NewQuestManager(registry)
               /\ \A o \in 1..Len(instances) :
                     Statuses(heap', instances'[o]) = Statuses(heap, instances[o])
          ELSE \A m, o \in 1..Len(instances) :
                  (m # o /\ Statuses(heap', instances'[m]) # Statuses(heap, instances[m]))
                     => Statuses(heap', instances'[o]) = Statuses(heap, instances[o])]_vars

\* C21 witness: a second instance has been constructed after a quest of the
\* first was completed, and quests of both have been activated since.
C21_Witness ==
    /\ Len(instances) = 2
    /\ Len(registry) = 2
    /\ Statuses(heap, instances[1]) = <<"completed", "active">>
    /\ Statuses(heap, instances[2]) = <<"active", "locked">>

\* C22: the tick that reaches the objective changes no quest status;
\* throughout SHOWING_SUCCESS the reached quest is still the active one; and a
\* quest becomes completed only by the dismissal, in SHOWING_SUCCESS, of the
\* instruction modal showing that quest's success message.
C22_CompletedOnlyOnSuccessDismissal ==
    /\ [](gameState = "SHOWING_SUCCESS" => GetCurrentQuest(quests) # 0)
    /\ [][(gameState = "PLAYING" /\ gameState' = "SHOWING_SUCCESS")
            => /\ quests' = quests
               /\ cachedCurrentQuest' = quests[GetCurrentQuest(quests)].id]_vars
    /\ [][\A i \in 1..Len(quests) :
            (i <= Len(quests') /\ quests[i].status # "completed"
                               /\ quests'[i].status = "completed")
               => /\ gameState = "SHOWING_SUCCESS"
                  /\ quests[i].status = "active"
                  /\ TopModal = "dialogue"
                  /\ dialogueText = Message("success", quests[i].id)]_vars

\* C23: a quest is marked completed, and the next quest is started, only
\* after that quest's success modal has been shown: never while the timeout
\* of its cinematic, which shows the modal, is still pending.
C23_NoCompletionDuringCinematic ==
    [][/\ \A i \in 1..Len(quests) :
            (i <= Len(quests') /\ quests[i].status # "completed"
                               /\ quests'[i].status = "completed")
               => quests[i].id \notin cinematicTimeouts
       /\ (pendingQuest' # NoQuest /\ pendingQuest' # pendingQuest)
               => cinematicTimeouts = {}]_vars

\* C24: in every reachable state the pending quest is non-null exactly when
\* the game state is SHOWING_INSTRUCTIONS.
C24_PendingIffShowingInstructions ==
    (pendingQuest # NoQuest) <=> (gameState = "SHOWING_INSTRUCTIONS")

\* C24 witness: the second quest is being introduced, after the pending
\* reference to the first was cleared when its instructions were dismissed.
C24_Witness ==
    /\ gameState = "SHOWING_INSTRUCTIONS"
    /\ Len(quests) >= 2
    /\ quests[1].status = "completed"
    /\ pendingQuest = quests[2].id

\* C25: handling a close event of the phone modal, after an answer or a
\* dismissal, never moves the game to PLAYING from another state.
C25_PhoneCloseNeverForcesPlaying ==
    [][((AnswerCall \/ PhoneModalClosed) /\ gameState' = "PLAYING")
        => gameState = "PLAYING"]_vars

\* The three things the map button toggles besides the camera, one by one.
ControlsFollowMapView == isMapView <=> ~controlsEnabled
MarkerFollowsMapView == isMapView <=> markerVisible
LabelsFollowMapView ==
    \A id \in TeleportButtons : isMapView <=> id \in teleportLabelsVisible
ButtonsFollowMapView ==
    \A id \in TeleportButtons : isMapView <=> id \in teleportButtonsVisible

TeleportLeavesMapView == [][Teleport => (~isMapView' /\ controlsEnabled')]_vars

\* C26: whatever map presses and teleport clicks happened, the camera is in
\* map view exactly when the player's controls are disabled, the marker is
\* visible and the teleport buttons are visible; a teleport click on a button
\* whose fire point exists leaves normal view with the controls enabled.
C26_MapViewIsConsistent ==
    /\ [](/\ ControlsFollowMapView
          /\ MarkerFollowsMapView
          /\ ButtonsFollowMapView)
    /\ TeleportLeavesMapView

\* Answering the call and closing the phone prompt both stop the ringtone.
RingtoneStoppedByPhoneHandlers ==
    [][(AnswerCall \/ PhoneModalClosed) => ~ringtonePlaying']_vars

\* C27: the ringtone started for a phone-call quest is stopped when the call
\* is answered and when the phone prompt is closed, so it never plays while
\* the game state is PLAYING or SHOWING_SUCCESS.
C27_NoRingtoneWhilePlaying ==
    /\ RingtoneStoppedByPhoneHandlers
    /\ [](ringtonePlaying => gameState \notin {"PLAYING", "SHOWING_SUCCESS"})

\* What the info button and the dismissal of its modal must leave alone.
questFlowVars == <<gameState, quests, pendingQuest, questTimer, questTimeouts,
                   nextHandle>>

\* C28: the info button shows the riddle of the active quest, and only when
\* there is one, without changing game state, statuses, pending quest or
\* timer; closing that modal while PLAYING changes none of them either.
C28_InfoReviewChangesNothing ==
    /\ [][InfoPressed =>
            /\ UNCHANGED questFlowVars
            /\ IF GetCurrentQuest(quests) # 0
               THEN /\ TopModal' = "dialogue"
                    /\ dialogueText' =
                         Message("riddle", quests[GetCurrentQuest(quests)].id)
               ELSE UNCHANGED <<modals, dialogueText>>]_vars
    /\ [][(InstructionModalClosed /\ gameState = "PLAYING") =>
            UNCHANGED questFlowVars]_vars

C28_Witness ==
    /\ gameState = "PLAYING"
    /\ TopModal = "dialogue"
    /\ GetCurrentQuest(quests) # 0
    /\ dialogueText = Message("riddle", quests[GetCurrentQuest(quests)].id)
    /\ questTimer # NoTimer

\* locked, active, completed in the order of a quest's life.
Rank(status) ==
    CASE status = "locked" -> 0
      [] status = "active" -> 1
      [] status = "completed" -> 2

\* A step keeps the quests and moves no status back or past a stage.
ForwardStep ==
    /\ Len(quests') = Len(quests)
    /\ \A i \in 1..Len(quests) :
          /\ [quests'[i] EXCEPT !.status = "locked"] =
             [quests[i] EXCEPT !.status = "locked"]
          /\ Rank(quests'[i].status) \in
                {Rank(quests[i].status), Rank(quests[i].status) + 1}

\* C29: under any sequence of operations the status of every quest only
\* moves forward, locked to active to completed, and no quest is added or
\* removed.  A page reload ends the session and constructs a new manager.
C29_StatusOnlyMovesForward == [][ForwardStep \/ Reload]_vars

C29_Witness ==
    \E i, j \in 1..Len(quests) :
        /\ quests[i].status = "completed"
        /\ quests[j].status = "active"

\* alpha, beta and radius of the camera.
CameraView == [alpha |-> camera.alpha, beta |-> camera.beta,
               radius |-> camera.radius]

\* C30: switchToTopDownView saves alpha, beta and radius and a following
\* switchToNormalView restores exactly them and ends in normal view;
\* switchToTopDownView in map view and switchToNormalView in normal view
\* change nothing, so the saved values are not overwritten.
C30_CameraViewRoundTrip ==
    /\ [][(SwitchToTopDownView /\ ~cameraIsMapView) =>
            (savedCamera' = CameraView /\ cameraIsMapView')]_vars
    /\ [][(cameraIsMapView /\ cameraIsMapView') =>
            savedCamera' = savedCamera]_vars
    /\ [][(SwitchToNormalView /\ cameraIsMapView) =>
            (CameraView' = savedCamera /\ ~cameraIsMapView')]_vars
    /\ [][(SwitchToTopDownView /\ cameraIsMapView) => UNCHANGED cameraVars]_vars
    /\ [][(SwitchToNormalView /\ ~cameraIsMapView) => UNCHANGED cameraVars]_vars

\* Back in normal view with the view the user had set before the switch.
C30_Witness ==
    /\ ~cameraIsMapView
    /\ camera.attached
    /\ savedCamera = CameraView
    /\ savedCamera.alpha = 90
    /\ savedCamera.radius = 3

====
